---- MODULE Spec2Model ----
(***************************************************************************)
(* A model of the AxiDraw controller of p5.axidraw (src/unnamed/part_000,  *)
(* the current version of src/src/index.js): the command queue (#command), *)
(* the public operations that feed it, stop(), and the external driver     *)
(* (EiBotBoard), whose promises resolve or reject at times of its own.     *)
(*                                                                         *)
(* Units: a position is a pair of integers in 1/UnitsPerMm mm, a speed an  *)
(* integer in 1/SpeedUnitsPerMmPerSec mm/s, so that MIN_MM_PER_SEC         *)
(* (1.31 / 80) and every step count are exact.                             *)
(***************************************************************************)
EXTENDS Integers, Sequences, FiniteSets, TLC

\* ------------------------------------------------------------------ bounds

\* Operations submitted to the command queue in one behaviour.
MaxOps == 3

\* Driver promises outside the queue (connect, disconnect, emergencyStop)
\* that may be outstanding at once.
MaxDirect == 1

\* Calls of stop() that reach the driver in one behaviour.
MaxStops == 2

\* --------------------------------------------------------------- constants

STEPS_PER_MM == 80

\* MAX_MM_PER_SEC, in mm/s.
MAX_MM_PER_SEC_MM == 380

\* The numerator of MIN_MM_PER_SEC = 1.31 / STEPS_PER_MM, in 1/100.
MIN_STEP_RATE_CENTI == 131

\* The constructor's mmPerSec, in mm/s.
DEFAULT_MM_PER_SEC == 25

\* The settle delay of penUp / penDown, in ms.
PEN_SETTLE_MS == 1000

\* The last analog channel analogConfigure accepts.
MAX_ANALOG_CHANNEL == 12

\* Position unit: 1/10 mm.
UnitsPerMm == 10

\* Speed unit: 1/8000 mm/s (1.31 / 80 = 131 / 8000).
SpeedUnitsPerMmPerSec == 8000

MAX_MM_PER_SEC == MAX_MM_PER_SEC_MM * SpeedUnitsPerMmPerSec

MIN_MM_PER_SEC == (MIN_STEP_RATE_CENTI * SpeedUnitsPerMmPerSec) \div (100 * STEPS_PER_MM)

\* ------------------------------------------------------------------ inputs

\* Points a sketch passes to moveTo, in position units: 0.1 mm and 0.2 mm from
\* the origin on both axes.
Targets == {[x |-> 0, y |-> 0], [x |-> 1, y |-> 2], [x |-> 2, y |-> 1]}

\* Speeds a sketch passes to setSpeed, in speed units: below the range, the
\* default, above the range.
SpeedInputs == {-5 * SpeedUnitsPerMmPerSec,
                DEFAULT_MM_PER_SEC * SpeedUnitsPerMmPerSec,
                1000 * SpeedUnitsPerMmPerSec}

\* Points and speeds of the sketches that exercise the queue rather than the
\* kinematics: there and back at the default speed.
QueueTargets == {[x |-> 0, y |-> 0], [x |-> 1, y |-> 2]}

\* Speeds of the sketches that move: the default, and one above the range, at
\* which every move between two Targets takes less than 1 ms.
MoveSpeeds == {DEFAULT_MM_PER_SEC * SpeedUnitsPerMmPerSec, 1000 * SpeedUnitsPerMmPerSec}

\* Speeds a sketch passes to setSpeed when it tries the range: negative, zero,
\* just below, at and just above both ends, and the default.
ClampInputs == {-5 * SpeedUnitsPerMmPerSec, 0, MIN_MM_PER_SEC - 1, MIN_MM_PER_SEC,
                MIN_MM_PER_SEC + 1, DEFAULT_MM_PER_SEC * SpeedUnitsPerMmPerSec,
                MAX_MM_PER_SEC - 1, MAX_MM_PER_SEC, MAX_MM_PER_SEC + 1,
                1000 * SpeedUnitsPerMmPerSec}

\* Analog channels a sketch names.
Channels == {3}

\* Channels a sketch passes to analogConfigure: both ends of the range, one
\* inside it and one beyond each end.
ConfigChannels == {-1, 0, 3, MAX_ANALOG_CHANNEL, MAX_ANALOG_CHANNEL + 1}

Origin == [x |-> 0, y |-> 0]

VARIABLES
    connected,          \* this.connected
    targetPos,          \* this.targetPos
    lastCommandedPos,   \* this.lastCommandedPos
    mmPerSec,           \* this.mmPerSec
    commands,           \* this.commands: the executeCommand closures, by operation id
    ops,                \* every operation submitted to #command, by id: its thunk's
                        \* captured values, where the thunk is, and its promise
    direct,             \* driver promises outstanding outside the queue
    devPenDown,         \* the device's pen state (what queryPen answers)
    devAnalog,          \* the device's enabled analog channels
    issuedSteps,        \* the sum of the steps passed to ebb.stepperMoveMixedAxis
    stops,              \* history: the calls of stop() that reached the driver
    started,            \* history: ids in the order their thunks were started
    completed,          \* history: ids in the order their completion handlers ran
    discarded,          \* history: ids stop() dropped from commands before they started
    thrown              \* history: the last call that reached a throw statement of a
                        \* public operation, and the Error its caller was given

vars == <<connected, targetPos, lastCommandedPos, mmPerSec, commands, ops, direct,
          devPenDown, devAnalog, issuedSteps, stops, started, completed, discarded, thrown>>

ctl == <<connected, targetPos, lastCommandedPos, mmPerSec>>
dev == <<devPenDown, devAnalog>>

Ids == 1..Len(ops)

\* ----------------------------------------------------------------- helpers

Max(a, b) == IF a >= b THEN a ELSE b
Min(a, b) == IF a <= b THEN a ELSE b

\* (a.x - b.x) ** 2 + (a.y - b.y) ** 2: the square of distance(a, b).
distance2(a, b) == (a.x - b.x) * (a.x - b.x) + (a.y - b.y) * (a.y - b.y)

\* timeToTarget = 1000 * (distance / mmPerSec), kept exact as the pair it is
\* computed from: the squared distance (position units) and the speed.
timeToTarget(d2, v) == [d2 |-> d2, v |-> v]

NoTime == [d2 |-> 0, v |-> 0]

\* The delay of wait(1000) in penUp / penDown.
SettleTime == [d2 |-> 0, v |-> 0, ms |-> PEN_SETTLE_MS]

\* A bug moveTo could have: no move is taken to be there already.
NeverBelowOneMs(t) == FALSE

\* timeToTarget < 1, exactly: 1000 * sqrt(d2) / UnitsPerMm < v / 8000, that is
\* 64 * 10^10 * d2 < v * v, computed in two limbs of 10^8 to stay within 32 bits.
TimeBelowOneMs(t) ==
    LET sh == t.v \div 10000
        sl == t.v % 10000
        b  == 2 * sh * sl
        lowpart == (b % 10000) * 10000 + sl * sl
        high == sh * sh + b \div 10000 + lowpart \div 100000000
        low  == lowpart % 100000000
        k == (1000 * SpeedUnitsPerMmPerSec) \div UnitsPerMm
        rhs == ((k \div 10000) * (k \div 10000)) * t.d2
    IN  high > rhs \/ (high = rhs /\ low > 0)

\* steps = delta * STEPS_PER_MM, for a delta in position units.
StepsOf(delta) == (delta * STEPS_PER_MM) \div UnitsPerMm

\* The driver call a thunk issues first.
FirstCall(kind) ==
    CASE kind \in {"enable", "disable"} -> "enableMotors"
      [] kind = "currentPosition"       -> "queryStepPosition"
      [] kind \in {"penUp", "penDown"}  -> "queryPen"
      [] kind = "setPenHeight"          -> "servoOutput"
      [] kind = "moveTo"                -> "stepperMoveMixedAxis"
      [] kind = "analogConfigure"       -> "analogConfigure"
      [] kind = "analogRead"            -> "analogValueGet"
      [] kind = "memoryRead"            -> "memoryRead"

DriverCalls == {"enableMotors", "queryStepPosition", "queryPen", "setPenState",
                "servoOutput", "stepperMoveMixedAxis", "analogConfigure",
                "analogValueGet", "memoryRead"}

\* The thunk of operation i has been started and has neither resolved nor failed.
InFlight(i) == ops[i].pc \in DriverCalls \cup {"wait"}

\* isBusy()
isBusy == Len(commands) > 0

\* A new operation: the values its thunk captures.
NewOp(kind, sx, sy, t, want, chan) ==
    [kind |-> kind, pc |-> "queued", promise |-> "pending",
     sx |-> sx, sy |-> sy, time |-> t, want |-> want, penWas |-> FALSE, chan |-> chan]

Op(kind) == NewOp(kind, 0, 0, NoTime, FALSE, 0)

\* An operation whose thunk resolved: its closure is garbage, its promise fulfilled.
Resolved == [Op("-") EXCEPT !.pc = "done", !.promise = "fulfilled"]

\* --------------------------------------------------------------- the queue

\* A bug moveTo could have: the thunk computes the duration when it runs, from
\* the speed then in effect.
TimeAtDispatch(t, speed) == [t EXCEPT !.v = speed]

\* The duration the thunk of a move uses, for the driver call and for the travel
\* wait: the const timeToTarget its closure captured when moveTo was called.
TimeCaptured(t, speed) == t

\* cmdFn() is called: the thunk issues its first driver call.
Started(o, id) ==
    [o EXCEPT ![id].pc = FirstCall(o[id].kind),
              ![id].time = IF o[id].kind = "moveTo"
                             THEN TimeCaptured(o[id].time, mmPerSec)
                             ELSE o[id].time]

\* The steps the driver's move call has been passed, once the thunk of id has
\* been started: ebb.stepperMoveMixedAxis(timeToTarget, steps.x, steps.y).
Issued(o, id) ==
    IF o[id].kind = "moveTo"
      THEN [x |-> issuedSteps.x + o[id].sx, y |-> issuedSteps.y + o[id].sy]
      ELSE issuedSteps

\* A bug #command could have: every executeCommand runs as soon as it is pushed.
StartsAlways(pending) == TRUE

\* Whether #command runs the new executeCommand at once: nothing was pending.
StartsAtOnce(pending) == ~pending

\* A bug #command could have: unshift instead of push.
Unshifted(cmds, id) == <<id>> \o cmds

\* this.commands.push(executeCommand)
Pushed(cmds, id) == Append(cmds, id)

\* #command(cmdFn): push executeCommand; run it at once when nothing was pending.
command(op) ==
    LET id == Len(ops) + 1
        pending == Len(commands) > 0
        pushed == Append(ops, op)
    IN  /\ Len(ops) < MaxOps
        /\ commands' = Pushed(commands, id)
        /\ IF StartsAtOnce(pending)
             THEN /\ ops' = Started(pushed, id)
                  /\ started' = Append(started, id)
                  /\ issuedSteps' = Issued(pushed, id)
             ELSE /\ ops' = pushed
                  /\ UNCHANGED <<started, issuedSteps>>
        /\ UNCHANGED <<direct, dev, stops, completed, discarded, thrown>>

\* this.commands.shift()
Shifted(cmds) == IF Len(cmds) > 0 THEN Tail(cmds) ELSE cmds

\* A bug the completion handler could have: it never runs the next command.
RunsNextNever(rest) == FALSE

\* if (this.commands.length > 0): whether the completion handler runs the new head.
RunsNext(rest) == Len(rest) > 0

\* The .then handler of executeCommand, after the thunk of id resolved:
\* fulfill(result); this.commands.shift(); run the new head if there is one.
Complete(o, id) ==
    LET rest == Shifted(commands)
        done == [o EXCEPT ![id] = Resolved]
    IN  /\ commands' = rest
        /\ completed' = Append(completed, id)
        /\ IF RunsNext(rest)
             THEN /\ ops' = Started(done, Head(rest))
                  /\ started' = Append(started, Head(rest))
                  /\ issuedSteps' = Issued(done, Head(rest))
             ELSE /\ ops' = done
                  /\ UNCHANGED <<started, issuedSteps>>

\* The thunk of id rejects: cmdFn().then(...) has no rejection handler, so
\* nothing runs.
Fail(o, id) ==
    /\ ops' = [o EXCEPT ![id].pc = "failed"]
    /\ UNCHANGED <<commands, started, completed, issuedSteps>>

\* ------------------------------------------------------- public operations

\* A bug connect() could have: it never returns early.
NeverAlready(flag) == FALSE

\* if (this.connected) return; in connect().
AlreadyConnected(flag) == flag

connect ==
    \/ /\ AlreadyConnected(connected)
       /\ UNCHANGED vars
    \/ /\ ~AlreadyConnected(connected)
       /\ Len(direct) < MaxDirect
       /\ direct' = Append(direct, "connect")
       /\ UNCHANGED <<ctl, commands, ops, dev, issuedSteps, stops, started, completed,
                      discarded, thrown>>

disconnect ==
    \/ /\ ~connected
       /\ UNCHANGED vars
    \/ /\ connected
       /\ Len(direct) < MaxDirect
       /\ direct' = Append(direct, "disconnect")
       /\ UNCHANGED <<ctl, commands, ops, dev, issuedSteps, stops, started, completed,
                      discarded, thrown>>

NoError == [op |-> "", error |-> ""]

\* A bug a throwing operation could have: it returns silently instead.
Swallowed(op, error) == [op |-> op, error |-> ""]

\* throw new Error(error) in the async operation op: its caller's promise is
\* rejected with the error.
Thrown(op, error) == [op |-> op, error |-> error]

\* The not-connected early return of the operations that then do nothing.
NotConnectedReturn ==
    /\ ~connected
    /\ UNCHANGED vars

enable ==
    /\ connected
    /\ command(Op("enable"))
    /\ UNCHANGED ctl

disable ==
    /\ connected
    /\ command(Op("disable"))
    /\ UNCHANGED ctl

currentPosition ==
    \/ /\ ~connected
       /\ thrown' = Thrown("currentPosition", "Not connected")
       /\ UNCHANGED <<ctl, commands, ops, direct, dev, issuedSteps, stops, started,
                      completed, discarded>>
    \/ /\ connected
       /\ command(Op("currentPosition"))
       /\ UNCHANGED ctl

penUp ==
    /\ connected
    /\ command(NewOp("penUp", 0, 0, NoTime, FALSE, 0))
    /\ UNCHANGED ctl

penDown ==
    /\ connected
    /\ command(NewOp("penDown", 0, 0, NoTime, TRUE, 0))
    /\ UNCHANGED ctl

\* setPenHeight does not look at this.connected.
setPenHeight ==
    /\ command(Op("setPenHeight"))
    /\ UNCHANGED ctl

\* A bug setSpeed could have: the value is stored as it is given.
Unclamped(v) == v

\* Math.max(Math.min(mmPerSec, MAX_MM_PER_SEC), MIN_MM_PER_SEC)
Clamped(v) == Max(Min(v, MAX_MM_PER_SEC), MIN_MM_PER_SEC)

setSpeed(v) ==
    /\ mmPerSec' = Clamped(v)
    /\ UNCHANGED <<connected, targetPos, lastCommandedPos, commands, ops, direct, dev,
                   issuedSteps, stops, started, completed, discarded, thrown>>

\* A bug moveTo could have: lastCommandedPos is left for the completion to set.
CommandedNotYet(target) == lastCommandedPos

\* this.lastCommandedPos = this.targetPos, before the move is enqueued.
CommandedAfterMove(target) == target

\* A bug moveTo could have: lastCommandedPos is set before the already-there
\* check, so that a skipped move moves it too.
CommandedAtSkip(target) == target

\* lastCommandedPos after a skipped move: the return at "We're already there"
\* comes before this.lastCommandedPos = this.targetPos.
CommandedAfterSkip(target) == lastCommandedPos

moveTo(x, y) ==
    LET target == [x |-> x, y |-> y]
        t == timeToTarget(distance2(lastCommandedPos, target), mmPerSec)
    IN  /\ connected
        /\ targetPos' = target
        /\ IF TimeBelowOneMs(t)
             THEN /\ lastCommandedPos' = CommandedAfterSkip(target)
                  /\ UNCHANGED <<connected, mmPerSec, commands, ops, direct,
                                 dev, issuedSteps, stops, started, completed, discarded,
                                 thrown>>
             ELSE /\ lastCommandedPos' = CommandedAfterMove(target)
                  /\ command(NewOp("moveTo", StepsOf(target.x - lastCommandedPos.x),
                                   StepsOf(target.y - lastCommandedPos.y), t, FALSE, 0))
                  /\ UNCHANGED <<connected, mmPerSec>>

\* A bug stop() could have: the queue is left as it is.
NotCleared(cmds) == cmds

\* this.commands = [] in stop().
Cleared(cmds) == <<>>

stop ==
    /\ connected
    /\ Len(direct) < MaxDirect
    /\ direct' = Append(direct, "emergencyStop")
    /\ commands' = Cleared(commands)
    /\ stops < MaxStops
    /\ stops' = stops + 1
    /\ discarded' = discarded \cup
          {commands[k] : k \in {j \in 1..Len(commands) : ops[commands[j]].pc = "queued"}}
    /\ UNCHANGED <<ctl, ops, dev, issuedSteps, started, completed, thrown>>

\* A bug analogConfigure could have: the channel is not checked.
AnyChannel(channel) == TRUE

\* The channels analogConfigure accepts: not (channel < 0 || channel > 12).
ValidChannel(channel) == ~(channel < 0 \/ channel > MAX_ANALOG_CHANNEL)

analogConfigure(channel, enabled) ==
    /\ connected
    /\ IF ValidChannel(channel)
         THEN /\ command(NewOp("analogConfigure", 0, 0, NoTime, enabled, channel))
              /\ UNCHANGED ctl
         ELSE /\ thrown' = Thrown("analogConfigure", "Invalid channel number")
              /\ UNCHANGED <<ctl, commands, ops, direct, dev, issuedSteps, stops, started,
                             completed, discarded>>

analogRead(channel) ==
    /\ connected
    /\ command(NewOp("analogRead", 0, 0, NoTime, FALSE, channel))
    /\ UNCHANGED ctl

memoryRead ==
    /\ connected
    /\ command(Op("memoryRead"))
    /\ UNCHANGED ctl

\* -------------------------------------------------------------- the driver

\* The driver resolves the oldest promise outside the queue.
DirectAck ==
    /\ Len(direct) > 0
    /\ direct' = Tail(direct)
    /\ connected' = CASE Head(direct) = "connect" -> TRUE
                      [] Head(direct) = "disconnect" -> FALSE
                      [] OTHER -> connected
    /\ UNCHANGED <<targetPos, lastCommandedPos, mmPerSec, commands, ops, dev,
                   issuedSteps, stops, started, completed, discarded, thrown>>

\* The driver rejects the oldest promise outside the queue: the await in
\* connect() or disconnect() throws, and this.connected is not assigned.
DirectReject ==
    /\ Len(direct) > 0
    /\ direct' = Tail(direct)
    /\ UNCHANGED <<ctl, commands, ops, dev, issuedSteps, stops, started, completed,
                   discarded, thrown>>

\* A bug penUp / penDown could have: the settle wait is unconditional.
SettlesAlways(was, want) == TRUE

\* if (penDown) in penUp, if (!penDown) in penDown: whether the thunk waits for
\* the pen to settle, given the state queried and the state requested.
Settles(was, want) == was # want

\* The driver resolves the call the thunk of operation i awaits; the thunk runs
\* on to its next await, or resolves.
DriverAck(i) ==
    LET o == ops[i]
    IN  /\ o.pc \in DriverCalls
        /\ UNCHANGED <<ctl, direct, stops, discarded, thrown>>
        /\ CASE o.pc = "queryPen" ->
                  /\ ops' = [ops EXCEPT ![i].penWas = devPenDown, ![i].pc = "setPenState"]
                  /\ UNCHANGED <<commands, dev, issuedSteps, started, completed>>
             [] o.pc = "setPenState" ->
                  /\ devPenDown' = o.want
                  /\ UNCHANGED devAnalog
                  /\ IF Settles(o.penWas, o.want)
                       THEN /\ ops' = [ops EXCEPT ![i].pc = "wait", ![i].time = SettleTime]
                            /\ UNCHANGED <<commands, issuedSteps, started, completed>>
                       ELSE Complete(ops, i)
             [] o.pc = "stepperMoveMixedAxis" ->
                  /\ ops' = [ops EXCEPT ![i].pc = "wait"]
                  /\ UNCHANGED <<commands, dev, issuedSteps, started, completed>>
             [] o.pc = "analogConfigure" ->
                  /\ devAnalog' = IF o.want THEN devAnalog \cup {o.chan}
                                            ELSE devAnalog \ {o.chan}
                  /\ UNCHANGED devPenDown
                  /\ Complete(ops, i)
             [] o.pc = "analogValueGet" ->
                  /\ UNCHANGED dev
                  /\ IF o.chan \in devAnalog THEN Complete(ops, i) ELSE Fail(ops, i)
             [] OTHER ->
                  /\ UNCHANGED dev
                  /\ Complete(ops, i)

\* The driver rejects the call the thunk of operation i awaits: the thunk fails.
DriverReject(i) ==
    /\ ops[i].pc \in DriverCalls
    /\ Fail(ops, i)
    /\ UNCHANGED <<ctl, direct, dev, stops, discarded, thrown>>

\* The timer of wait(ms) fires: the thunk resolves.
TimerFire(i) ==
    /\ ops[i].pc = "wait"
    /\ Complete(ops, i)
    /\ UNCHANGED <<ctl, direct, dev, stops, discarded, thrown>>

\* ------------------------------------------------------------ specification

Init ==
    /\ connected = FALSE
    /\ targetPos = Origin
    /\ lastCommandedPos = Origin
    /\ mmPerSec = DEFAULT_MM_PER_SEC * SpeedUnitsPerMmPerSec
    /\ commands = <<>>
    /\ ops = <<>>
    /\ direct = <<>>
    /\ devPenDown = FALSE
    /\ devAnalog = {}
    /\ stops = 0
    /\ started = <<>>
    /\ completed = <<>>
    /\ discarded = {}
    /\ issuedSteps = [x |-> 0, y |-> 0]
    /\ thrown = NoError

\* The driver and the timers answer.
Answers ==
    \/ DirectAck
    \/ DirectReject
    \/ \E i \in Ids : DriverAck(i)
    \/ \E i \in Ids : DriverReject(i)
    \/ \E i \in Ids : TimerFire(i)

\* A sketch that calls any public operation at any time.
Next ==
    \/ connect
    \/ disconnect
    \/ NotConnectedReturn
    \/ enable
    \/ disable
    \/ currentPosition
    \/ penUp
    \/ penDown
    \/ setPenHeight
    \/ \E v \in SpeedInputs : setSpeed(v)
    \/ \E p \in Targets : moveTo(p.x, p.y)
    \/ stop
    \/ \E c \in Channels, e \in BOOLEAN : analogConfigure(c, e)
    \/ \E c \in Channels : analogRead(c)
    \/ memoryRead
    \/ Answers

Spec == Init /\ [][Next]_vars

\* A sketch that exercises the queue with one thunk of every shape: one driver
\* call (enable), two driver calls and a conditional settle wait (penDown), a
\* driver call and a travel wait (moveTo), and a thunk that throws after its
\* driver call (analogRead of a channel never enabled); and stop().
QueueNext ==
    \/ connect
    \/ enable
    \/ penDown
    \/ \E p \in QueueTargets : moveTo(p.x, p.y)
    \/ \E c \in Channels : analogRead(c)
    \/ stop
    \/ Answers

QueueSpec == Init /\ [][QueueNext]_vars

\* The driver answers every call and every timer fires.
Fairness ==
    /\ WF_vars(DirectAck)
    /\ \A i \in 1..MaxOps : WF_vars(i \in Ids /\ (DriverAck(i) \/ DriverReject(i)))
    /\ \A i \in 1..MaxOps : WF_vars(i \in Ids /\ TimerFire(i))

\* A sketch for the liveness checks: a thunk of one driver call (enable), a
\* thunk of two driver calls and a conditional settle wait (penDown), and stop().
LiveNext ==
    \/ connect
    \/ enable
    \/ penDown
    \/ stop
    \/ Answers

FairQueueSpec == Init /\ [][LiveNext]_vars /\ Fairness

\* A sketch that moves: moveTo among three points at the speeds setSpeed
\* leaves, with stop().
MoveNext ==
    \/ connect
    \/ \E v \in MoveSpeeds : setSpeed(v)
    \/ \E p \in Targets : moveTo(p.x, p.y)
    \/ stop
    \/ Answers

MoveSpec == Init /\ [][MoveNext]_vars

\* A sketch that changes the speed between moves, and while moves are queued.
SpeedNext ==
    \/ connect
    \/ \E v \in ClampInputs : setSpeed(v)
    \/ \E p \in QueueTargets : moveTo(p.x, p.y)
    \/ Answers

SpeedSpec == Init /\ [][SpeedNext]_vars

\* A sketch that raises and lowers the pen, one call right after another.
PenNext ==
    \/ connect
    \/ penUp
    \/ penDown
    \/ Answers

PenSpec == Init /\ [][PenNext]_vars

\* A sketch that opens and closes the link and calls operations at any time,
\* also while not connected: one that then returns (moveTo), one that throws
\* (currentPosition), one that does not look (setPenHeight), and stop().
LinkNext ==
    \/ connect
    \/ disconnect
    \/ NotConnectedReturn
    \/ \E p \in QueueTargets : moveTo(p.x, p.y)
    \/ currentPosition
    \/ setPenHeight
    \/ stop
    \/ Answers

LinkSpec == Init /\ [][LinkNext]_vars

\* A sketch that closes the link while operations it enqueued are outstanding.
CloseNext ==
    \/ connect
    \/ disconnect
    \/ enable
    \/ \E p \in QueueTargets : moveTo(p.x, p.y)
    \/ Answers

CloseSpec == Init /\ [][CloseNext]_vars

\* A sketch that configures analog channels and reads one, and lowers the pen.
AnalogNext ==
    \/ connect
    \/ penDown
    \/ \E c \in ConfigChannels, e \in BOOLEAN : analogConfigure(c, e)
    \/ \E c \in Channels : analogRead(c)
    \/ Answers

AnalogSpec == Init /\ [][AnalogNext]_vars

\* ------------------------------------------------------------------ claims

Range(q) == {q[k] : k \in 1..Len(q)}

AnyFailed == \E i \in Ids : ops[i].pc = "failed"

\* The operation a step submits to #command, when it submits one.
Submits == Len(ops') > Len(ops)
Submitted == ops'[Len(ops')]

\* A step that is a call of stop() that reached the driver.
StopStep == stops' # stops

\* C1. FIFO: as long as the sketch has not called stop(), the queued operations
\* are started in the order they were submitted and complete in that order,
\* and one is started only when every earlier one has completed.
FifoOrder ==
    stops = 0 =>
        /\ \A k \in 1..Len(started) : started[k] = k
        /\ \A k \in 1..Len(completed) : completed[k] = k
        /\ Len(completed) <= Len(started)
        /\ Len(started) <= Len(completed) + 1

\* Three operations were submitted; the first has completed, its completion
\* started the second, and the third waits behind the second.
FifoWitness ==
    /\ stops = 0
    /\ Len(ops) = 3
    /\ completed = <<1>>
    /\ started = <<1, 2>>
    /\ commands = <<2, 3>>
    /\ InFlight(2)
    /\ ops[3].pc = "queued"

\* C2. At most one operation is in flight: at most one thunk has been started
\* and has neither resolved nor failed, in every reachable state.
AtMostOneInFlight == Cardinality({i \in Ids : InFlight(i)}) <= 1

\* C3. A failure reaches its caller: the promise of an operation whose thunk
\* failed is rejected.
FailureRejectsPromise ==
    \A i \in Ids : ops[i].pc = "failed" => ops[i].promise = "rejected"

\* C4. A failed operation does not stall the queue: it is removed from the
\* pending list and the operation behind it, if any, is started.
FailedOpLeavesQueue ==
    \A i \in Ids : ops[i].pc = "failed" =>
        /\ i \notin Range(commands)
        /\ commands # <<>> => ops[Head(commands)].pc # "queued"

\* C5. stop() is immediate: the step that calls stop() while connected issues
\* the emergency stop to the driver itself, whatever is pending or in flight,
\* and isBusy() is false when it returns.
StopIsImmediate ==
    [][StopStep =>
          /\ Len(direct') = Len(direct) + 1
          /\ direct'[Len(direct')] = "emergencyStop"
          /\ ~isBusy']_vars

\* stop() has been called with one operation in flight and another waiting:
\* the emergency stop is with the driver and the controller is not busy.
StopWitness ==
    /\ stops = 1
    /\ direct = <<"emergencyStop">>
    /\ ~isBusy
    /\ \E i \in Ids : InFlight(i)
    /\ discarded # {}

\* C6. stop() clears only work that has not started: an operation that waited
\* in the queue when stop() was called is never started, stop() changes no
\* operation that is in flight, and an operation in flight runs on until its
\* thunk resolves (or the driver fails it).
StopClearsOnlyWaiting ==
    /\ [][(\A i \in discarded : ops[i].pc = "queued" /\ ops'[i].pc = "queued")
          /\ (StopStep => ops' = ops)]_vars
    /\ \A i \in 1..MaxOps :
          (i \in Ids /\ stops > 0 /\ InFlight(i)) ~> (i \in Ids /\ ops[i].pc \in {"done", "failed"})

\* The operation in flight when stop() dropped operation 2 has completed, an
\* operation submitted after the stop has been started, and operation 2 has not.
StopClearsWitness ==
    /\ 2 \in discarded
    /\ Len(ops) = 3
    /\ ops[1].pc = "done"
    /\ ops[2].pc = "queued"
    /\ ops[3].pc # "queued"

\* C7, as stated. Liveness: when the driver answers every call, every timer
\* fires and no thunk fails, every operation submitted is eventually completed
\* with its promise fulfilled, and the queue is eventually empty for good.
EverySubmittedCompletes ==
    /\ \A i \in 1..MaxOps :
          (i \in Ids) ~> (AnyFailed \/ (i \in Ids /\ ops[i].pc = "done" /\ ops[i].promise = "fulfilled"))
    /\ <>[](AnyFailed \/ ~isBusy)

\* C7, amended. The same of every operation that stop() has not dropped from
\* the queue.
EveryKeptSubmittedCompletes ==
    /\ \A i \in 1..MaxOps :
          (i \in Ids) ~> \/ AnyFailed
                         \/ i \in discarded
                         \/ (i \in Ids /\ ops[i].pc = "done" /\ ops[i].promise = "fulfilled")
    /\ <>[](AnyFailed \/ ~isBusy)

\* Three operations were submitted; stop() dropped one of them, the other two
\* have completed and the queue is empty.
KeptCompleteWitness ==
    /\ Len(ops) = 3
    /\ Cardinality(discarded) = 1
    /\ \A i \in Ids \ discarded : ops[i].pc = "done" /\ ops[i].promise = "fulfilled"
    /\ ~isBusy

\* C8. Submission does not wait: the step that submits an operation appends it
\* to the queue behind whatever is there and returns its promise pending; and a
\* promise changes only by being fulfilled in the step in which the thunk of
\* its own operation resolves.
SubmitNeverWaits ==
    [][/\ Submits =>
            /\ Len(ops') = Len(ops) + 1
            /\ commands' = Append(commands, Len(ops'))
            /\ Submitted.promise = "pending"
       /\ \A i \in Ids :
            ops'[i].promise # ops[i].promise =>
                /\ InFlight(i)
                /\ ops'[i].pc = "done"
                /\ ops'[i].promise = "fulfilled"
                /\ completed' = Append(completed, i)]_vars

\* Two operations were submitted while the first was in flight; the first has
\* been fulfilled and the other two promises are pending.
SubmitWitness ==
    /\ Len(ops) = 3
    /\ commands = <<2, 3>>
    /\ ops[1].promise = "fulfilled"
    /\ ops[2].promise = "pending" /\ InFlight(2)
    /\ ops[3].promise = "pending" /\ ops[3].pc = "queued"

\* C9. A move resolves only after both of its stages: the driver's answer to
\* the move, then the travel wait; and no other operation is started while a
\* move is still in flight.
MoveResolvesAfterTravel ==
    [][\A i \in Ids : ops[i].kind = "moveTo" =>
          /\ (ops[i].promise = "pending" /\ ops'[i].promise = "fulfilled") => ops[i].pc = "wait"
          /\ (ops[i].pc # "wait" /\ ops'[i].pc = "wait") => ops[i].pc = "stepperMoveMixedAxis"
          /\ \A j \in 1..Len(ops') :
                (j # i /\ InFlight(i) /\ ops'[i].pc \in DriverCalls \cup {"wait"})
                    => ~(ops'[j].pc \in DriverCalls /\ (j \in Ids => ops[j].pc = "queued"))]_vars

\* C10. The steps of a move are measured from the last commanded position: the
\* step that enqueues a move gives it (target - lastCommandedPos) * 80 on both
\* axes and sets lastCommandedPos to the target, and lastCommandedPos changes
\* in no other step, whatever has completed.
MoveStepsFromLastCommanded ==
    [][/\ (Submits /\ Submitted.kind = "moveTo") =>
            /\ Submitted.sx * UnitsPerMm = (targetPos'.x - lastCommandedPos.x) * STEPS_PER_MM
            /\ Submitted.sy * UnitsPerMm = (targetPos'.y - lastCommandedPos.y) * STEPS_PER_MM
            /\ lastCommandedPos' = targetPos'
       /\ lastCommandedPos' # lastCommandedPos => (Submits /\ Submitted.kind = "moveTo")]_vars

\* Two moves are enqueued, neither complete: the second, to (0.2, 0.1) mm, has
\* its steps measured from the target of the first, (0.1, 0.2) mm.
MoveStepsWitness ==
    /\ Len(ops) >= 2
    /\ ops[1].kind = "moveTo" /\ InFlight(1)
    /\ ops[2].kind = "moveTo" /\ ops[2].pc = "queued"
    /\ ops[1].sx = 8 /\ ops[1].sy = 16
    /\ ops[2].sx = 8 /\ ops[2].sy = -8
    /\ lastCommandedPos = [x |-> 2, y |-> 1]

\* No operation is outstanding: the command queue is empty and no thunk is in flight.
Idle == commands = <<>> /\ ~\E i \in Ids : InFlight(i)

\* C11. Position invariant: whenever the command queue is empty and no
\* operation is in flight, the sum of the steps issued to the driver's move call,
\* divided by STEPS_PER_MM, is lastCommandedPos.
PenAtLastCommanded ==
    Idle =>
        /\ issuedSteps.x * UnitsPerMm = lastCommandedPos.x * STEPS_PER_MM
        /\ issuedSteps.y * UnitsPerMm = lastCommandedPos.y * STEPS_PER_MM

\* C12. Speed invariant: mmPerSec is always within [MIN_MM_PER_SEC,
\* MAX_MM_PER_SEC]; setSpeed(v) stores MIN_MM_PER_SEC for a v below the range,
\* MAX_MM_PER_SEC for a v above it and v itself otherwise; and a step that
\* changes the speed throws nothing and leaves the command queue, the
\* operations and the driver alone.
SpeedAlwaysInRange ==
    /\ [](MIN_MM_PER_SEC <= mmPerSec /\ mmPerSec <= MAX_MM_PER_SEC)
    /\ [][/\ \A v \in ClampInputs : setSpeed(v) =>
                mmPerSec' = IF v < MIN_MM_PER_SEC THEN MIN_MM_PER_SEC
                            ELSE IF v > MAX_MM_PER_SEC THEN MAX_MM_PER_SEC
                            ELSE v
          /\ mmPerSec' # mmPerSec =>
                UNCHANGED <<commands, ops, direct, issuedSteps, thrown>>]_vars

\* setSpeed was given a value below the range while a move enqueued at the
\* default speed was in flight: the speed is MIN_MM_PER_SEC and the move is as
\* it was.
SpeedClampedWitness ==
    /\ mmPerSec = MIN_MM_PER_SEC
    /\ isBusy
    /\ \E i \in Ids : /\ InFlight(i)
                       /\ ops[i].kind = "moveTo"
                       /\ ops[i].time.v = DEFAULT_MM_PER_SEC * SpeedUnitsPerMmPerSec

\* The travel time from lastCommandedPos to a target at the current speed.
TravelTime(target) == timeToTarget(distance2(lastCommandedPos, target), mmPerSec)

\* C13. A move that is there already is skipped: a step that enqueues a move
\* has a target at a distance from lastCommandedPos that is not 0 and takes
\* 1 ms or more; and a moveTo whose target is at distance 0, or less than 1 ms
\* away, enqueues nothing, starts no thunk, passes the driver no steps and
\* leaves lastCommandedPos where it was.
ShortMoveIsSkipped ==
    [][/\ (Submits /\ Submitted.kind = "moveTo") =>
             /\ distance2(lastCommandedPos, targetPos') # 0
             /\ ~TimeBelowOneMs(TravelTime(targetPos'))
       /\ (targetPos' # targetPos
              /\ (distance2(lastCommandedPos, targetPos') = 0
                    \/ TimeBelowOneMs(TravelTime(targetPos')))) =>
             UNCHANGED <<commands, ops, direct, issuedSteps, lastCommandedPos>>]_vars

\* moveTo(0.1, 0.2) was called at MAX_MM_PER_SEC from the origin, 0.59 ms away:
\* the target is recorded and nothing was enqueued or issued.
ShortMoveWitness ==
    /\ connected
    /\ mmPerSec = MAX_MM_PER_SEC
    /\ targetPos = [x |-> 1, y |-> 2]
    /\ lastCommandedPos = Origin
    /\ ops = <<>>
    /\ commands = <<>>
    /\ issuedSteps = [x |-> 0, y |-> 0]

PenKinds == {"penUp", "penDown"}

\* C14. Pen settle: the thunk of a penUp / penDown queries the device's pen
\* state, then issues the pen-state command for the state its operation asks
\* for, and then waits the 1000 ms settle delay if and only if the state
\* queried differs from the state asked for; the device's pen state changes
\* only by such a command, and is the state asked for when the operation
\* completes. Hence a penDown right after a penDown queries "down" and does
\* not wait, and a penUp right after a penDown queries "down" and waits.
PenSettles ==
    [][/\ \A i \in Ids : ops[i].kind \in PenKinds =>
             /\ ops[i].want = (ops[i].kind = "penDown")
             /\ (ops[i].pc = "queued" /\ ops'[i].pc # "queued") => ops'[i].pc = "queryPen"
             /\ (ops[i].pc = "queryPen" /\ ops'[i].pc # "queryPen") =>
                    \/ ops'[i].pc = "failed"
                    \/ ops'[i].pc = "setPenState" /\ ops'[i].penWas = devPenDown
             /\ (ops[i].pc = "setPenState" /\ ops'[i].pc # "setPenState") =>
                    \/ ops'[i].pc = "failed"
                    \/ /\ devPenDown' = ops[i].want
                       /\ ops[i].penWas # ops[i].want =>
                             ops'[i].pc = "wait" /\ ops'[i].time.ms = PEN_SETTLE_MS
                       /\ ops[i].penWas = ops[i].want => ops'[i].pc = "done"
             /\ (ops[i].pc = "wait" /\ ops'[i].pc # "wait") =>
                    ops'[i].pc = "done" /\ devPenDown' = ops[i].want
       /\ devPenDown' # devPenDown => \E i \in Ids : ops[i].pc = "setPenState"]_vars

\* A penDown has completed and the penDown issued right after it has queried
\* the pen and found it down: its pen-state command is with the driver, and it
\* will resolve without a settle wait; a penUp waits behind it.
PenSettleWitness ==
    /\ Len(ops) = 3
    /\ ops[1].pc = "done"
    /\ ops[2].kind = "penDown" /\ ops[2].pc = "setPenState" /\ ops[2].penWas
    /\ ops[3].kind = "penUp" /\ ops[3].pc = "queued"
    /\ devPenDown

\* A step in which a public operation issues a call to the driver outside the
\* queue, and the call it issues.
IssuesDirect == Len(direct') > Len(direct)
IssuedDirect == direct'[Len(direct')]

\* C15. While connected is false, a public operation other than connect issues
\* no driver call, appends nothing to the command queue and leaves targetPos
\* and lastCommandedPos unchanged.
OfflineIsNoOp ==
    [][~connected =>
          /\ ~Submits
          /\ commands' = commands \/ Len(commands') < Len(commands)
          /\ IssuesDirect => IssuedDirect = "connect"
          /\ targetPos' = targetPos
          /\ lastCommandedPos' = lastCommandedPos]_vars

AnalogReadFailureReachesCaller ==
    [][\A i \in Ids :
          (ops[i].pc = "analogValueGet" /\ ops'[i].pc # "analogValueGet") =>
              /\ ops[i].chan \notin devAnalog =>
                    ops'[i].pc = "failed" /\ ops'[i].promise = "rejected"
              /\ (ops[i].chan \in devAnalog /\ ops'[i].pc # "failed") =>
                    ops'[i].pc = "done" /\ ops'[i].promise = "fulfilled"]_vars

\* C18. analogConfigure(channel, enabled) called while connected with a channel
\* below 0 or above 12 throws 'Invalid channel number' to its caller, appends
\* nothing to the command queue and issues no driver call; with a channel in
\* 0..12 it appends exactly one operation, whose thunk issues the driver's
\* analogConfigure call for that channel.
AnalogConfigureChecksChannel ==
    /\ [](thrown.op = "analogConfigure" => thrown.error = "Invalid channel number")
    /\ [][/\ \A c \in ConfigChannels, e \in BOOLEAN :
                (analogConfigure(c, e) /\ (c < 0 \/ c > MAX_ANALOG_CHANNEL)) =>
                    thrown'.op = "analogConfigure"
          /\ thrown' # thrown =>
                /\ connected
                /\ thrown'.op = "analogConfigure"
                /\ UNCHANGED <<commands, ops, direct, dev, issuedSteps>>
          /\ (Submits /\ Submitted.kind = "analogConfigure") =>
                /\ connected
                /\ Submitted.chan \in 0..MAX_ANALOG_CHANNEL
                /\ Len(ops') = Len(ops) + 1
                /\ commands' = Append(commands, Len(ops'))
                /\ Submitted.pc = IF commands = <<>> THEN "analogConfigure" ELSE "queued"
                /\ thrown' = thrown]_vars

\* analogConfigure threw for a channel out of range, and an analogConfigure of
\* channel 12 is with the driver, one of channel 0 enqueued behind it.
AnalogConfigureWitness ==
    /\ thrown = [op |-> "analogConfigure", error |-> "Invalid channel number"]
    /\ Len(ops) >= 2
    /\ ops[1].kind = "analogConfigure" /\ ops[1].chan = MAX_ANALOG_CHANNEL
    /\ ops[1].pc = "analogConfigure"
    /\ ops[2].kind = "analogConfigure" /\ ops[2].chan = 0 /\ ops[2].pc = "queued"
    /\ commands = <<1, 2>>

\* C19. isBusy() is true exactly when queued work is outstanding: in every
\* reachable state, isBusy() holds if and only if some operation is in flight
\* or waits in the queue to be run.
BusyIffOutstanding ==
    isBusy <=> (\E i \in Ids : InFlight(i) \/ (ops[i].pc = "queued" /\ i \in Range(commands)))

\* C20. Connection flag and idempotence: connected becomes true only in the
\* step in which the driver settles an open call, and false only in the step in
\* which it settles a close call; an open call is issued only while connected
\* is false and a close call only while it is true, so connect() while
\* connected and disconnect() while not connected change nothing.
ConnectedFollowsDriver ==
    [][/\ (~connected /\ connected') =>
             direct # <<>> /\ Head(direct) = "connect" /\ direct' = Tail(direct)
       /\ (connected /\ ~connected') =>
             direct # <<>> /\ Head(direct) = "disconnect" /\ direct' = Tail(direct)
       /\ (IssuesDirect /\ IssuedDirect = "connect") => ~connected /\ ~connected'
       /\ (IssuesDirect /\ IssuedDirect = "disconnect") => connected /\ connected']_vars

\* The driver has confirmed the connection and disconnect() has issued the
\* close call, which the driver has not confirmed yet: connected is still true.
ConnectedWitness ==
    /\ connected
    /\ direct = <<"disconnect">>

\* C21. Head invariant: an operation whose thunk is in flight is the first
\* element of commands, and every other entry of commands has not been started.
HeadIsOnlyRunning ==
    /\ \A i \in Ids : InFlight(i) => (commands # <<>> /\ Head(commands) = i)
    /\ \A k \in 2..Len(commands) : ops[commands[k]].pc = "queued"

\* C22. On completion an operation removes itself and only itself: in the
\* step in which the completion handler of an operation runs, the entry its
\* shift removes from commands, if it removes one, is that operation's own.
ShiftRemovesOwnEntry ==
    [][\A i \in Ids :
          (completed' = Append(completed, i) /\ commands # <<>>) =>
              Head(commands) = i /\ i \notin Range(commands')]_vars

\* C23. Every promise is eventually settled: when the driver answers every
\* call and every timer fires, the promise of an operation that stop() dropped
\* from the queue is eventually fulfilled or rejected, and so is the promise of
\* every other operation submitted.
EveryPromiseSettles ==
    /\ \A i \in 1..MaxOps :
          (i \in discarded) ~> (i \in Ids /\ ops[i].promise # "pending")
    /\ \A i \in 1..MaxOps :
          (i \in Ids) ~> (i \in Ids /\ ops[i].promise # "pending")

\* C24. No queued driver command is dispatched while the link is down: in a
\* step taken while connected is false no queued operation issues a driver
\* call, neither the first call of a thunk being started nor a later call of a
\* thunk in flight.
NoDispatchWhileDown ==
    [][~connected =>
          \A i \in 1..Len(ops') :
              ops'[i].pc \in DriverCalls => (i \in Ids /\ ops[i].pc = ops'[i].pc)]_vars

\* C25. The duration of a move is fixed when moveTo is called: the step that
\* enqueues a move gives it 1000 * distance / mmPerSec for the distance from
\* lastCommandedPos to the target and the speed of that moment, and the move
\* keeps that duration while it waits, when it is dispatched to the driver and
\* through its travel wait, whatever setSpeed has stored since.
MoveTimeFixedAtCall ==
    [][/\ (Submits /\ Submitted.kind = "moveTo") =>
             Submitted.time = timeToTarget(distance2(lastCommandedPos, targetPos'), mmPerSec)
       /\ \A i \in Ids :
             (ops[i].kind = "moveTo" /\ ops'[i].kind = "moveTo") =>
                 ops'[i].time = ops[i].time]_vars

\* A move enqueued at the default speed waited behind another while setSpeed
\* stored MIN_MM_PER_SEC; it has since been dispatched to the driver with the
\* duration computed at the default speed.
MoveTimeWitness ==
    /\ Len(ops) >= 2
    /\ ops[1].pc = "done"
    /\ ops[2].kind = "moveTo" /\ ops[2].pc = "stepperMoveMixedAxis"
    /\ ops[2].time = timeToTarget(5, DEFAULT_MM_PER_SEC * SpeedUnitsPerMmPerSec)
    /\ started = <<1, 2>>
    /\ mmPerSec = MIN_MM_PER_SEC

\* The steps of the moves enqueued and not started, waiting in the queue or
\* dropped from it by stop(), on one axis.
RECURSIVE OwedUpTo(_, _)
OwedUpTo(n, axis) ==
    IF n = 0 THEN 0
    ELSE OwedUpTo(n - 1, axis)
           + (IF ops[n].kind = "moveTo" /\ ops[n].pc = "queued"
                THEN (IF axis = "x" THEN ops[n].sx ELSE ops[n].sy)
                ELSE 0)

Owed == [x |-> OwedUpTo(Len(ops), "x"), y |-> OwedUpTo(Len(ops), "y")]

\* C26. A skipped moveTo changes only targetPos: a step that changes targetPos
\* and enqueues nothing leaves lastCommandedPos, the command queue and
\* everything else as they were, so that the next move enqueued is measured
\* from lastCommandedPos; and skipped moves leave no difference behind: the
\* steps issued to the driver plus the steps of the moves enqueued and not
\* started are always STEPS_PER_MM times lastCommandedPos.
SkippedMoveLeavesNoDrift ==
    /\ [][/\ (targetPos' # targetPos /\ ~Submits) =>
                /\ TimeBelowOneMs(TravelTime(targetPos'))
                /\ UNCHANGED <<connected, lastCommandedPos, mmPerSec, commands, ops, direct,
                               dev, issuedSteps, stops, started, completed, discarded,
                               thrown>>
          /\ (Submits /\ Submitted.kind = "moveTo") =>
                /\ Submitted.sx * UnitsPerMm = (targetPos'.x - lastCommandedPos.x) * STEPS_PER_MM
                /\ Submitted.sy * UnitsPerMm = (targetPos'.y - lastCommandedPos.y) * STEPS_PER_MM]_vars
    /\ [](/\ (issuedSteps.x + Owed.x) * UnitsPerMm = lastCommandedPos.x * STEPS_PER_MM
          /\ (issuedSteps.y + Owed.y) * UnitsPerMm = lastCommandedPos.y * STEPS_PER_MM)

\* A move to (0.1, 0.2) mm was enqueued and issued at the default speed; then,
\* at MAX_MM_PER_SEC, a move to (0.2, 0.1) mm was skipped: targetPos is the
\* skipped target, lastCommandedPos and the steps issued are those of the
\* first move.
SkippedMoveWitness ==
    /\ Len(ops) = 1
    /\ ops[1].kind = "moveTo" /\ InFlight(1)
    /\ issuedSteps = [x |-> 8, y |-> 16]
    /\ lastCommandedPos = [x |-> 1, y |-> 2]
    /\ targetPos = [x |-> 2, y |-> 1]
    /\ mmPerSec = MAX_MM_PER_SEC

====
